---- MODULE Spec2Model ----
EXTENDS Integers, Sequences, FiniteSets, TLC

\* ------------------------------------------------------------------
\* RobotProtocol (src/main.py): frame encoders and checksum;
\* RobotMobileApp.decode_response: inbound frame decoder.
\* Byte strings are sequences of integers 0..255. An encoder result is a
\* record: tag "frame" with its bytes, tag "None" (Python None) or tag
\* "Error" (a raised exception). A decoder result is a record: kind "None",
\* "Movement", "Speed" or "Angle" with the decoded fields in order.
\* ------------------------------------------------------------------

HeaderHi == 170
HeaderLo == 85
SpeedMax == 115
AccelMax == 255
AngleMax10 == 1800

\* bounds of the enumerated inputs
MaxSeqLen == 4
MaxTailLen == 4

Clamp(x, lo, hi) == IF x < lo THEN lo ELSE IF x > hi THEN hi ELSE x

\* bytes([x]) raises ValueError unless 0 <= x <= 255
ByteOk(x) == x \in 0..255

Frame(b) == [tag |-> "frame", bytes |-> b]
NoneResult == [tag |-> "None", bytes |-> <<>>]
ErrorResult == [tag |-> "Error", bytes |-> <<>>]

RECURSIVE ChecksumLoop(_, _)
ChecksumLoop(s, acc) ==
    IF s = <<>> THEN acc ELSE ChecksumLoop(Tail(s), (acc + Head(s)) % 256)

StartsWithHeader(b) == Len(b) >= 2 /\ b[1] = HeaderHi /\ b[2] = HeaderLo

CalculateChecksum_NoHeaderSkip(b) == ChecksumLoop(b, 0)

CalculateChecksum(b) ==
    IF Len(b) = 0 THEN 0
    ELSE LET cb == IF StartsWithHeader(b) THEN SubSeq(b, 3, Len(b)) ELSE b
         IN ChecksumLoop(cb, 0)

MovementCodes == [d \in 1..6 |-> d]

CreateMovementCommand_HeaderInSum(direction, id_byte) ==
    IF direction \notin DOMAIN MovementCodes THEN NoneResult
    ELSE IF ~ByteOk(id_byte) THEN ErrorResult
    ELSE LET frame_data == <<4, 128, id_byte, MovementCodes[direction]>>
             checksum == ChecksumLoop(<<HeaderHi, HeaderLo>> \o frame_data, 0)
         IN Frame(<<HeaderHi, HeaderLo>> \o frame_data \o <<checksum>>)

CreateMovementCommand_NoRangeCheck(direction, id_byte) ==
    IF ~ByteOk(id_byte) \/ ~ByteOk(direction) THEN ErrorResult
    ELSE LET frame_data == <<4, 128, id_byte, direction>>
             checksum == CalculateChecksum(<<HeaderHi, HeaderLo>> \o frame_data)
         IN Frame(<<HeaderHi, HeaderLo>> \o frame_data \o <<checksum>>)

CreateMovementCommand(direction, id_byte) ==
    IF direction \notin DOMAIN MovementCodes THEN NoneResult
    ELSE IF ~ByteOk(id_byte) THEN ErrorResult
    ELSE LET frame_data == <<4, 128, id_byte, MovementCodes[direction]>>
             checksum == CalculateChecksum(<<HeaderHi, HeaderLo>> \o frame_data)
         IN Frame(<<HeaderHi, HeaderLo>> \o frame_data \o <<checksum>>)

CreateSpeedCommand_Clamp127(speed_rpm, accel_time, id_byte) ==
    LET speed == Clamp(speed_rpm, 0, 127)
        accel == Clamp(accel_time, 0, AccelMax)
    IN IF ~ByteOk(id_byte) THEN ErrorResult
       ELSE LET frame_data == <<7, 129, 1, id_byte, speed, accel>>
                checksum == CalculateChecksum(<<HeaderHi, HeaderLo>> \o frame_data)
            IN Frame(<<HeaderHi, HeaderLo>> \o frame_data \o <<checksum>>)

CreateSpeedCommand_Len6(speed_rpm, accel_time, id_byte) ==
    LET speed == Clamp(speed_rpm, 0, SpeedMax)
        accel == Clamp(accel_time, 0, AccelMax)
    IN IF ~ByteOk(id_byte) THEN ErrorResult
       ELSE LET frame_data == <<6, 129, 1, id_byte, speed, accel>>
                checksum == CalculateChecksum(<<HeaderHi, HeaderLo>> \o frame_data)
            IN Frame(<<HeaderHi, HeaderLo>> \o frame_data \o <<checksum>>)

CreateSpeedCommand(speed_rpm, accel_time, id_byte) ==
    LET speed == Clamp(speed_rpm, 0, SpeedMax)
        accel == Clamp(accel_time, 0, AccelMax)
    IN IF ~ByteOk(id_byte) THEN ErrorResult
       ELSE LET frame_data == <<7, 129, 1, id_byte, speed, accel>>
                checksum == CalculateChecksum(<<HeaderHi, HeaderLo>> \o frame_data)
            IN Frame(<<HeaderHi, HeaderLo>> \o frame_data \o <<checksum>>)

CreateAngleCommand_ByteClampOnly(angle10, id_byte) ==
    LET angle_byte == Clamp(angle10 \div 10, 0, 255)
    IN IF ~ByteOk(id_byte) THEN ErrorResult
       ELSE LET frame_data == <<7, 129, 2, id_byte, angle_byte, 0>>
                checksum == CalculateChecksum(<<HeaderHi, HeaderLo>> \o frame_data)
            IN Frame(<<HeaderHi, HeaderLo>> \o frame_data \o <<checksum>>)

\* angle10 is the float argument in tenths of a degree; the clamped value
\* is non-negative, so int() truncation is floor division by 10
CreateAngleCommand(angle10, id_byte) ==
    LET clamped10 == Clamp(angle10, 0, AngleMax10)
        angle_byte == Clamp(clamped10 \div 10, 0, 255)
    IN IF ~ByteOk(id_byte) THEN ErrorResult
       ELSE LET frame_data == <<7, 129, 2, id_byte, angle_byte, 0>>
                checksum == CalculateChecksum(<<HeaderHi, HeaderLo>> \o frame_data)
            IN Frame(<<HeaderHi, HeaderLo>> \o frame_data \o <<checksum>>)

\* byte * 180.0 / 180.0 is exact for 0..255
DecodeAngleFromByte(angle_byte) == angle_byte

DecodedNone == [kind |-> "None", fields |-> <<>>]

DecodeResponse_SpeedOffByOne(d) ==
    IF Len(d) < 6 THEN DecodedNone
    ELSE IF d[1] # HeaderHi \/ d[2] # HeaderLo THEN DecodedNone
    ELSE IF Len(d) = 6 /\ d[3] = 4 /\ d[4] = 128
         THEN [kind |-> "Movement", fields |-> <<d[5], d[6]>>]
    ELSE IF Len(d) = 8 /\ d[3] = 7 /\ d[4] = 129 /\ d[5] = 1
         THEN [kind |-> "Speed", fields |-> <<d[5], d[6], d[7]>>]
    ELSE IF Len(d) = 8 /\ d[3] = 7 /\ d[4] = 129 /\ d[5] = 2
         THEN [kind |-> "Angle", fields |-> <<DecodeAngleFromByte(d[7])>>]
    ELSE DecodedNone

DecodeResponse_MovementMinLen(d) ==
    IF Len(d) < 6 THEN DecodedNone
    ELSE IF d[1] # HeaderHi \/ d[2] # HeaderLo THEN DecodedNone
    ELSE IF Len(d) >= 6 /\ d[3] = 4 /\ d[4] = 128
         THEN [kind |-> "Movement", fields |-> <<d[5], d[6]>>]
    ELSE IF Len(d) = 8 /\ d[3] = 7 /\ d[4] = 129 /\ d[5] = 1
         THEN [kind |-> "Speed", fields |-> <<d[6], d[7], d[8]>>]
    ELSE IF Len(d) = 8 /\ d[3] = 7 /\ d[4] = 129 /\ d[5] = 2
         THEN [kind |-> "Angle", fields |-> <<DecodeAngleFromByte(d[7])>>]
    ELSE DecodedNone

\* data is 0-indexed in Python: data[k] is d[k+1]
DecodeResponse(d) ==
    IF Len(d) < 6 THEN DecodedNone
    ELSE IF d[1] # HeaderHi \/ d[2] # HeaderLo THEN DecodedNone
    ELSE IF Len(d) = 6 /\ d[3] = 4 /\ d[4] = 128
         THEN [kind |-> "Movement", fields |-> <<d[5], d[6]>>]
    ELSE IF Len(d) = 8 /\ d[3] = 7 /\ d[4] = 129 /\ d[5] = 1
         THEN [kind |-> "Speed", fields |-> <<d[6], d[7], d[8]>>]
    ELSE IF Len(d) = 8 /\ d[3] = 7 /\ d[4] = 129 /\ d[5] = 2
         THEN [kind |-> "Angle", fields |-> <<DecodeAngleFromByte(d[7])>>]
    ELSE DecodedNone

\* ------------------------------------------------------------------
\* Input sets
\* ------------------------------------------------------------------
DirectionSet == {-1, 0, 1, 2, 3, 4, 5, 6, 7, 255}
IdSet == {0, 1, 2, 3, 4, 255}
SpeedSet == {-50, -1, 0, 1, 57, 114, 115, 116, 255, 256, 300}
AccelSet == {-10, -1, 0, 1, 128, 254, 255, 256, 400}
AngleSet == {-300, -15, -1, 0, 5, 9, 10, 11, 899, 1799, 1800, 1801, 1805, 2500}

ChecksumAlphabet == {0, 1, HeaderLo, HeaderHi, 255}
ChecksumInputs == UNION {[1..n -> ChecksumAlphabet] : n \in 0..MaxSeqLen}

ShortAlphabet == {4, HeaderLo, HeaderHi}
ShortInputs == UNION {[1..n -> ShortAlphabet] : n \in 0..5}
TailAlphabet == {0, 5, 6}
FramedInputs ==
    UNION {{<<h0, h1, ln, ty, st>> \o t :
              t \in [1..n -> TailAlphabet]} :
           h0 \in {HeaderHi, 0}, h1 \in {HeaderLo, 0}, ln \in {4, 7},
           ty \in {128, 129}, st \in {1, 2, 3}, n \in 1..MaxTailLen}
DecodeInputs == ShortInputs \cup FramedInputs

EncodeCalls ==
    {[kind |-> "movement", direction |-> d, id |-> i] : d \in DirectionSet, i \in IdSet}
    \cup {[kind |-> "speed", speed |-> s, accel |-> a, id |-> i] :
            s \in SpeedSet, a \in AccelSet, i \in IdSet}
    \cup {[kind |-> "angle", angle |-> g, id |-> i] : g \in AngleSet, i \in IdSet}

Encode(c) ==
    CASE c.kind = "movement" -> CreateMovementCommand(c.direction, c.id)
      [] c.kind = "speed" -> CreateSpeedCommand(c.speed, c.accel, c.id)
      [] c.kind = "angle" -> CreateAngleCommand(c.angle, c.id)

\* ------------------------------------------------------------------
\* TCPClient (src/main.py). One caller thread (the UI) issues connect,
\* disconnect and send_data; every successful connect starts a receive
\* thread running _receive_loop. Socket objects are numbered 1..MaxSockets in
\* creation order (0 is None); the receive thread started by the connect
\* that created socket s is thread s.
\* ------------------------------------------------------------------
MaxSockets == 2
MaxChunks == 2

Sockets == 1..MaxSockets
NoSocket == 0

\* socket object states (the kernel's view): "unused" (not yet created),
\* "fresh" (created, handshake unanswered), "pending" (connect() timed out,
\* handshake still unanswered), "refused" (handshake refused), "failed"
\* (handshake failed otherwise), "connected", "peerclosed" (the peer closed the stream in
\* order), "closed" (close() was called)
\* receive thread positions: "idle" (never started), "check" (the while
\* test), "capture" (evaluating self.socket.recv), "io" (inside recv(1024)),
\* "deliver" (calling the callback), "done" (returned)
LoopPcs == {"check", "capture", "io", "deliver"}

\* call, inp, res: the codec call made, its arguments and its result
VARIABLES call, inp, res

VARIABLES socket, is_connected, sock, nextSock, cpc,
          pc, rs, held, stopReq, nextChunk, readLog, delivered, last

tcp_vars == <<socket, is_connected, sock, nextSock, cpc,
              pc, rs, held, stopReq, nextChunk, readLog, delivered, last>>
thread_vars == <<pc, rs, held, stopReq, nextChunk, readLog, delivered>>

LastRec(act, t, result, sockop) ==
    [act |-> act, t |-> t, result |-> result, sockop |-> sockop]

TCPInit ==
    /\ socket = NoSocket
    /\ is_connected = FALSE
    /\ sock = [s \in Sockets |-> "unused"]
    /\ nextSock = 0
    /\ cpc = "idle"
    /\ pc = [t \in Sockets |-> "idle"]
    /\ rs = [t \in Sockets |-> NoSocket]
    /\ held = [t \in Sockets |-> 0]
    /\ stopReq = [t \in Sockets |-> FALSE]
    /\ nextChunk = 0
    /\ readLog = <<>>
    /\ delivered = <<>>
    /\ last = LastRec("init", 0, "none", FALSE)

\* connect, up to the blocking self.socket.connect((host, port)):
\* self.socket is replaced by a new socket object; the old one is not closed
\* socket.socket() itself may raise (e.g. EMFILE) before self.socket is
\* assigned: connect returns (False, reason) and nothing changes
ConnectBegin ==
    /\ cpc = "idle"
    /\ \/ /\ nextSock < MaxSockets
          /\ LET s == nextSock + 1 IN
               /\ socket' = s
               /\ sock' = [sock EXCEPT ![s] = "fresh"]
               /\ nextSock' = s
          /\ cpc' = "connecting"
          /\ last' = LastRec("connect_begin", 0, "none", TRUE)
          /\ UNCHANGED <<is_connected>>
       \/ /\ last' = LastRec("connect_end", 0, "failed", FALSE)
          /\ UNCHANGED <<socket, sock, nextSock, cpc, is_connected>>
    /\ UNCHANGED thread_vars

\* the connect call returns. Its result is not a function of the kernel
\* state seen by the model: a receive thread reading the socket can consume
\* a pending refusal (connect then succeeds), and a handshake completed or
\* reset at the deadline can still give socket.timeout or another error.
\* On success the flag is set (line 183) before threading.Thread.start()
\* (line 189); if start() raises, the broad except returns (False, reason)
\* with the flag left set and no receive thread. socket.timeout,
\* ConnectionRefusedError and other exceptions only return (False, reason).
ConnectEnd ==
    /\ cpc = "connecting"
    /\ cpc' = "idle"
    /\ \/ /\ sock[socket] \in {"connected", "peerclosed", "refused", "failed"}
          /\ is_connected' = TRUE
          /\ \/ /\ pc' = [pc EXCEPT ![socket] = "check"]
                /\ last' = LastRec("connect_end", 0, "ok", TRUE)
             \/ /\ UNCHANGED pc
                /\ last' = LastRec("connect_end", 0, "failed", TRUE)
          /\ UNCHANGED <<socket, sock, nextSock, rs, held, stopReq, nextChunk, readLog, delivered>>
       \/ /\ \E r \in {"timeout", "refused", "failed"} :
                last' = LastRec("connect_end", 0, r, TRUE)
          /\ sock' = [sock EXCEPT ![socket] =
                         IF sock[socket] = "fresh" THEN "pending" ELSE sock[socket]]
          /\ UNCHANGED <<socket, is_connected, nextSock>>
          /\ UNCHANGED thread_vars

\* disconnect: three writes the receive threads can observe in between:
\* is_connected = False (line 202), socket.close() (204, errors swallowed),
\* self.socket = None (207). With no socket it does nothing.
Disconnect_KeepFlag ==
    /\ cpc = "idle"
    /\ IF socket # NoSocket
       THEN /\ cpc' = "disc_close"
            /\ last' = LastRec("disconnect_begin", 0, "none", FALSE)
       ELSE /\ UNCHANGED cpc
            /\ last' = LastRec("disconnect", 0, "none", FALSE)
    /\ stopReq' = [t \in Sockets |-> stopReq[t] \/ pc[t] \in LoopPcs]
    /\ UNCHANGED <<is_connected, sock, socket, nextSock, pc, rs, held, nextChunk, readLog, delivered>>

Disconnect ==
    /\ cpc = "idle"
    /\ IF socket # NoSocket
       THEN /\ is_connected' = FALSE
            /\ cpc' = "disc_close"
            /\ last' = LastRec("disconnect_begin", 0, "none", FALSE)
       ELSE /\ UNCHANGED <<is_connected, cpc>>
            /\ last' = LastRec("disconnect", 0, "none", FALSE)
    /\ stopReq' = [t \in Sockets |-> stopReq[t] \/ pc[t] \in LoopPcs]
    /\ UNCHANGED <<sock, socket, nextSock, pc, rs, held, nextChunk, readLog, delivered>>

DisconnectClose ==
    /\ cpc = "disc_close"
    /\ cpc' = "disc_clear"
    /\ sock' = [sock EXCEPT ![socket] = "closed"]
    /\ last' = LastRec("disconnect_close", 0, "none", TRUE)
    /\ UNCHANGED <<socket, is_connected, nextSock>>
    /\ UNCHANGED thread_vars

DisconnectClear_KeepSocket ==
    /\ cpc = "disc_clear"
    /\ cpc' = "idle"
    /\ last' = LastRec("disconnect", 0, "none", TRUE)
    /\ UNCHANGED <<socket, sock, is_connected, nextSock>>
    /\ UNCHANGED thread_vars

DisconnectClear ==
    /\ cpc = "disc_clear"
    /\ cpc' = "idle"
    /\ socket' = NoSocket
    /\ last' = LastRec("disconnect", 0, "none", TRUE)
    /\ UNCHANGED <<sock, is_connected, nextSock>>
    /\ UNCHANGED thread_vars

\* sendall may fail on a connected socket (any I/O error); on a socket that
\* is not connected it always raises
SendOutcomes(s) ==
    IF sock[s] \in {"connected", "peerclosed"} THEN {TRUE, FALSE} ELSE {FALSE}

SendData_SocketOnly ==
    /\ cpc = "idle"
    /\ IF socket = NoSocket
       THEN /\ last' = LastRec("send", 0, "not_connected", FALSE)
            /\ UNCHANGED is_connected
       ELSE \E ok \in SendOutcomes(socket) :
              IF ok THEN /\ last' = LastRec("send", 0, "ok", TRUE)
                         /\ UNCHANGED is_connected
                    ELSE /\ last' = LastRec("send", 0, "failed", TRUE)
                         /\ is_connected' = FALSE
    /\ UNCHANGED <<socket, sock, nextSock, cpc>>
    /\ UNCHANGED thread_vars

SendData_KeepFlag ==
    /\ cpc = "idle"
    /\ IF ~is_connected \/ socket = NoSocket
       THEN /\ last' = LastRec("send", 0, "not_connected", FALSE)
            /\ UNCHANGED is_connected
       ELSE \E ok \in SendOutcomes(socket) :
              /\ last' = LastRec("send", 0, IF ok THEN "ok" ELSE "failed", TRUE)
              /\ UNCHANGED is_connected
    /\ UNCHANGED <<socket, sock, nextSock, cpc>>
    /\ UNCHANGED thread_vars

SendData ==
    /\ cpc = "idle"
    /\ IF ~is_connected \/ socket = NoSocket
       THEN /\ last' = LastRec("send", 0, "not_connected", FALSE)
            /\ UNCHANGED is_connected
       ELSE \E ok \in SendOutcomes(socket) :
              IF ok THEN /\ last' = LastRec("send", 0, "ok", TRUE)
                         /\ UNCHANGED is_connected
                    ELSE /\ last' = LastRec("send", 0, "failed", TRUE)
                         /\ is_connected' = FALSE
    /\ UNCHANGED <<socket, sock, nextSock, cpc>>
    /\ UNCHANGED thread_vars

\* the kernel completes the handshake of self.socket's connect(), before
\* connect() returns or, after it timed out, late
Handshake ==
    \E s \in Sockets :
        /\ sock[s] \in {"fresh", "pending"}
        /\ sock' = [sock EXCEPT ![s] = "connected"]
        /\ last' = LastRec("handshake", 0, "none", FALSE)
        /\ UNCHANGED <<socket, is_connected, nextSock, cpc>>
        /\ UNCHANGED thread_vars

\* the kernel gives up the handshake: refused (RST) or another failure
HandshakeFails ==
    \E s \in Sockets, r \in {"refused", "failed"} :
        /\ sock[s] \in {"fresh", "pending"}
        /\ sock' = [sock EXCEPT ![s] = r]
        /\ last' = LastRec("handshake_fails", 0, r, FALSE)
        /\ UNCHANGED <<socket, is_connected, nextSock, cpc>>
        /\ UNCHANGED thread_vars

\* the peer closes its end of an established stream in order
PeerClose ==
    \E s \in Sockets :
        /\ sock[s] = "connected"
        /\ sock' = [sock EXCEPT ![s] = "peerclosed"]
        /\ last' = LastRec("peer_close", 0, "none", FALSE)
        /\ UNCHANGED <<socket, is_connected, nextSock, cpc>>
        /\ UNCHANGED thread_vars

\* while self.is_connected and self.socket:
LoopCheck(t) ==
    /\ pc[t] = "check"
    /\ pc' = [pc EXCEPT ![t] = IF is_connected /\ socket # NoSocket THEN "capture" ELSE "done"]
    /\ last' = LastRec("check", t, "none", FALSE)
    /\ UNCHANGED <<socket, is_connected, sock, nextSock, cpc>>
    /\ UNCHANGED <<rs, held, stopReq, nextChunk, readLog, delivered>>

\* self.socket.recv: None.recv raises AttributeError, caught by the bare
\* except, which breaks the loop
LoopCapture(t) ==
    /\ pc[t] = "capture"
    /\ IF socket = NoSocket
       THEN /\ pc' = [pc EXCEPT ![t] = "done"]
            /\ UNCHANGED rs
       ELSE /\ pc' = [pc EXCEPT ![t] = "io"]
            /\ rs' = [rs EXCEPT ![t] = socket]
    /\ last' = LastRec("capture", t, "none", FALSE)
    /\ UNCHANGED <<socket, is_connected, sock, nextSock, cpc>>
    /\ UNCHANGED <<held, stopReq, nextChunk, readLog, delivered>>

\* the socket a recv acts on. close() by another thread while the recv is
\* in flight is a data race: the blocked call keeps the old descriptor
\* number, which a socket created afterwards (a later id) may reuse, so
\* the read then behaves as a read on that socket.
ReadTargets(t) ==
    IF sock[rs[t]] = "closed"
    THEN {rs[t]} \cup {s \in Sockets : s > rs[t] /\ sock[s] # "unused"}
    ELSE {rs[t]}

\* recv(1024) on the captured socket: a chunk, a timeout (continue), b''
\* once the peer closed (no callback, loop continues), or an error (break).
\* recv on a socket whose handshake is unanswered waits and times out (or
\* fails); on one whose handshake was refused or failed it returns b'' (the
\* receive side is shut down) or raises; this does not depend on whether
\* connect() has returned yet; on a socket closed by another
\* thread the in-flight read ends with an error or a timeout.
RecvData(t) ==
    /\ \E e \in ReadTargets(t) : sock[e] = "connected"
    /\ nextChunk < MaxChunks
    /\ nextChunk' = nextChunk + 1
    /\ readLog' = Append(readLog, nextChunk + 1)
    /\ held' = [held EXCEPT ![t] = nextChunk + 1]
    /\ pc' = [pc EXCEPT ![t] = "deliver"]
    /\ last' = LastRec("recv_data", t, "none", TRUE)
    /\ UNCHANGED <<delivered>>

RecvTimeout(t) ==
    /\ \E e \in ReadTargets(t) : sock[e] \in {"connected", "closed", "fresh", "pending"}
    /\ pc' = [pc EXCEPT ![t] = "check"]
    /\ last' = LastRec("recv_timeout", t, "none", TRUE)
    /\ UNCHANGED <<held, nextChunk, readLog, delivered>>

RecvEof_Break(t) ==
    /\ \E e \in ReadTargets(t) : sock[e] \in {"peerclosed", "refused", "failed"}
    /\ pc' = [pc EXCEPT ![t] = "done"]
    /\ last' = LastRec("recv_eof", t, "none", TRUE)
    /\ UNCHANGED <<held, nextChunk, readLog, delivered>>

RecvEof(t) ==
    /\ \E e \in ReadTargets(t) : sock[e] \in {"peerclosed", "refused", "failed"}
    /\ pc' = [pc EXCEPT ![t] = "check"]
    /\ last' = LastRec("recv_eof", t, "none", TRUE)
    /\ UNCHANGED <<held, nextChunk, readLog, delivered>>

RecvError(t) ==
    /\ \E e \in ReadTargets(t) : sock[e] \in {"connected", "fresh", "pending", "refused", "failed", "closed"}
    /\ pc' = [pc EXCEPT ![t] = "done"]
    /\ last' = LastRec("recv_error", t, "none", TRUE)
    /\ UNCHANGED <<held, nextChunk, readLog, delivered>>

LoopRecv_ErrorClearsFlag(t) ==
    /\ pc[t] = "io"
    /\ \/ RecvData(t) /\ UNCHANGED is_connected
       \/ RecvTimeout(t) /\ UNCHANGED is_connected
       \/ RecvEof(t) /\ UNCHANGED is_connected
       \/ RecvError(t) /\ is_connected' = FALSE
    /\ UNCHANGED <<socket, sock, nextSock, cpc>>
    /\ UNCHANGED <<rs, stopReq>>

LoopRecv(t) ==
    /\ pc[t] = "io"
    /\ (RecvData(t) \/ RecvTimeout(t) \/ RecvEof(t) \/ RecvError(t))
    /\ UNCHANGED <<socket, is_connected, sock, nextSock, cpc>>
    /\ UNCHANGED <<rs, stopReq>>

\* self.receive_callback(data) (the app always registers one)
LoopDeliver(t) ==
    /\ pc[t] = "deliver"
    /\ delivered' = Append(delivered, held[t])
    /\ held' = [held EXCEPT ![t] = 0]
    /\ pc' = [pc EXCEPT ![t] = "check"]
    /\ last' = LastRec("deliver", t, "none", FALSE)
    /\ UNCHANGED <<socket, is_connected, sock, nextSock, cpc>>
    /\ UNCHANGED <<rs, stopReq, nextChunk, readLog>>

ReceiveLoop(t) == LoopCheck(t) \/ LoopCapture(t) \/ LoopRecv(t) \/ LoopDeliver(t)

TCPNext ==
    \/ ConnectBegin \/ ConnectEnd \/ Disconnect \/ DisconnectClose \/ DisconnectClear
    \/ SendData
    \/ Handshake \/ HandshakeFails \/ PeerClose
    \/ \E t \in Sockets : ReceiveLoop(t)

\* ------------------------------------------------------------------
\* Codec specification: each behaviour makes one call of the codec
\* ------------------------------------------------------------------
codec_vars == <<call, inp, res>>

CodecInit == call = "init" /\ inp = "none" /\ res = "none" /\ TCPInit

CallMovement ==
    \E d \in DirectionSet, i \in IdSet :
        /\ call = "init"
        /\ call' = "movement"
        /\ inp' = [direction |-> d, id |-> i]
        /\ res' = CreateMovementCommand(d, i)

CallSpeed ==
    \E s \in SpeedSet, a \in AccelSet, i \in IdSet :
        /\ call = "init"
        /\ call' = "speed"
        /\ inp' = [speed |-> s, accel |-> a, id |-> i]
        /\ res' = CreateSpeedCommand(s, a, i)

CallAngle ==
    \E g \in AngleSet, i \in IdSet :
        /\ call = "init"
        /\ call' = "angle"
        /\ inp' = [angle |-> g, id |-> i]
        /\ res' = CreateAngleCommand(g, i)

CallChecksum ==
    \E b \in ChecksumInputs :
        /\ call = "init"
        /\ call' = "checksum"
        /\ inp' = [data |-> b]
        /\ res' = CalculateChecksum(b)

CallDecode ==
    \E b \in DecodeInputs :
        /\ call = "init"
        /\ call' = "decode"
        /\ inp' = [data |-> b]
        /\ res' = DecodeResponse(b)

\* an encoded command frame fed to the decoder, both whole and without
\* its trailing checksum byte (the response shape)
CallRoundTrip ==
    \E c \in EncodeCalls :
        /\ call = "init"
        /\ Encode(c).tag = "frame"
        /\ call' = "roundtrip"
        /\ inp' = c
        /\ res' = [full |-> DecodeResponse(Encode(c).bytes),
                   shape |-> DecodeResponse(SubSeq(Encode(c).bytes, 1,
                                                   Len(Encode(c).bytes) - 1))]

CodecNext == (CallMovement \/ CallSpeed \/ CallAngle \/ CallChecksum
              \/ CallDecode \/ CallRoundTrip)
             /\ UNCHANGED tcp_vars

vars == <<call, inp, res, socket, is_connected, sock, nextSock, cpc,
          pc, rs, held, stopReq, nextChunk, readLog, delivered, last>>

CodecSpec == CodecInit /\ [][CodecNext]_vars

\* ------------------------------------------------------------------
\* TCPClient specification
\* ------------------------------------------------------------------
Init == TCPInit /\ call = "init" /\ inp = "none" /\ res = "none"

Next == TCPNext /\ UNCHANGED codec_vars

Spec == Init /\ [][Next]_vars

\* the receive thread is scheduled whenever it can run
ReceiveStep(t) == ReceiveLoop(t) /\ UNCHANGED codec_vars

LiveSpec == Spec /\ \A t \in Sockets : WF_vars(ReceiveStep(t))

\* ------------------------------------------------------------------
\* Properties of the codec
\* ------------------------------------------------------------------
Hdr == <<HeaderHi, HeaderLo>>
SumMod256(s) == LET RECURSIVE Sum(_) Sum(t) == IF t = <<>> THEN 0 ELSE Head(t) + Sum(Tail(t))
                IN Sum(s) % 256

\* C1: for direction in 1..6 and id in 0..4 the movement command is the
\* 7 bytes AA 55 04 80 id direction checksum, checksum = sum of bytes[2:6] mod 256.
C1_MovementFrame ==
    (call = "movement" /\ inp.direction \in 1..6 /\ inp.id \in 0..4) =>
        /\ res.tag = "frame"
        /\ res.bytes = <<HeaderHi, HeaderLo, 4, 128, inp.id, inp.direction,
                         (4 + 128 + inp.id + inp.direction) % 256>>
        /\ res.bytes[7] = CalculateChecksum(SubSeq(res.bytes, 3, 6))
C1_Witness == call = "movement" /\ inp.direction = 6 /\ inp.id = 4 /\ res.tag = "frame"

\* C2: a direction outside 1..6 gives None (not an exception), whatever the id.
C2_InvalidDirectionNone ==
    (call = "movement" /\ inp.direction \notin 1..6) => res = NoneResult
C2_Witness == call = "movement" /\ inp.direction = 7 /\ inp.id = 255

\* C3 (original): the speed command never fails and is 10 bytes starting
\* AA 55 07 81 01.
C3_Original ==
    (call = "speed" /\ inp.id \in 0..4) =>
        /\ res.tag = "frame"
        /\ Len(res.bytes) = 10
        /\ SubSeq(res.bytes, 1, 5) = <<HeaderHi, HeaderLo, 7, 129, 1>>
\* C3 (amended): the speed command never fails and is exactly 9 bytes
\* AA 55 07 81 01 id clamp(speed,0,115) clamp(accel,0,255) checksum.
C3_SpeedFrame ==
    (call = "speed" /\ inp.id \in 0..4) =>
        /\ res.tag = "frame"
        /\ Len(res.bytes) = 9
        /\ SubSeq(res.bytes, 1, 8) = <<HeaderHi, HeaderLo, 7, 129, 1, inp.id,
                                       Clamp(inp.speed, 0, 115), Clamp(inp.accel, 0, 255)>>
        /\ res.bytes[9] = SumMod256(SubSeq(res.bytes, 3, 8))
C3_Witness == call = "speed" /\ inp.speed = 300 /\ inp.accel = -10 /\ inp.id = 2

\* C4: the angle command never fails and is AA 55 07 81 02 id
\* int(clamp(angle,0,180)) 00 checksum, so the angle byte is in 0..180.
C4_AngleFrame ==
    (call = "angle" /\ inp.id \in 0..4) =>
        /\ res.tag = "frame"
        /\ res.bytes = <<HeaderHi, HeaderLo, 7, 129, 2, inp.id,
                         Clamp(inp.angle, 0, 1800) \div 10, 0,
                         SumMod256(<<7, 129, 2, inp.id, Clamp(inp.angle, 0, 1800) \div 10, 0>>)>>
        /\ res.bytes[7] \in 0..180
C4_Witness == call = "angle" /\ inp.angle = 1799 /\ inp.id = 1 /\ res.bytes[7] = 179

\* C5 (original): create_movement_command(1, 0) is AA 55 04 80 00 01 86.
C5_Original ==
    (call = "movement" /\ inp.direction = 1 /\ inp.id = 0) =>
        res = Frame(<<170, 85, 4, 128, 0, 1, 134>>)
\* C5 (amended): create_movement_command(1, 0) is AA 55 04 80 00 01 85.
C5_Example ==
    (call = "movement" /\ inp.direction = 1 /\ inp.id = 0) =>
        res = Frame(<<170, 85, 4, 128, 0, 1, 133>>)
C5_Witness == call = "movement" /\ inp.direction = 1 /\ inp.id = 0

\* C6 (original): in every encoded frame LEN (byte 2) = frame length - 4.
C6_Original ==
    (call \in {"movement", "speed", "angle"} /\ res.tag = "frame") =>
        res.bytes[3] = Len(res.bytes) - 4
\* C6 (amended): LEN is the fixed per-type constant: 0x04 in the 7-byte
\* movement frame (length - 3), 0x07 in the 9-byte speed and angle frames
\* (length - 2).
C6_LenByte ==
    (call \in {"movement", "speed", "angle"} /\ res.tag = "frame") =>
        \/ /\ call = "movement" /\ Len(res.bytes) = 7
           /\ res.bytes[3] = 4 /\ res.bytes[3] = Len(res.bytes) - 3
        \/ /\ call \in {"speed", "angle"} /\ Len(res.bytes) = 9
           /\ res.bytes[3] = 7 /\ res.bytes[3] = Len(res.bytes) - 2
C6_Witness == call = "angle" /\ res.tag = "frame"

ExpectedDecode(c) ==
    CASE c.kind = "movement" -> [kind |-> "Movement", fields |-> <<c.id, c.direction>>]
      [] c.kind = "speed" ->
            [kind |-> "Speed",
             fields |-> <<c.id, Clamp(c.speed, 0, 115), Clamp(c.accel, 0, 255)>>]
      [] c.kind = "angle" ->
            [kind |-> "Angle", fields |-> <<Clamp(c.angle, 0, 1800) \div 10>>]

\* C7 (original): decoding the bytes of an encoded command recovers its
\* (clamped) fields.
C7_Original == (call = "roundtrip" /\ inp.id \in 0..4) => res.full = ExpectedDecode(inp)
\* C7 (amended): the whole command frame decodes to None; the frame without
\* its trailing checksum byte (the response shape) decodes to the command's
\* (clamped) fields.
C7_RoundTrip ==
    (call = "roundtrip" /\ inp.id \in 0..4) =>
        /\ res.full = DecodedNone
        /\ res.shape = ExpectedDecode(inp)
C7_Witness == call = "roundtrip" /\ inp.kind = "speed" /\ inp.speed = 300
              /\ inp.accel = 400 /\ inp.id = 3

RecognizedShape(d) ==
    \/ Len(d) = 6 /\ d[3] = 4 /\ d[4] = 128
    \/ Len(d) = 8 /\ d[3] = 7 /\ d[4] = 129 /\ d[5] \in {1, 2}

\* C8: decode returns None exactly when the input is shorter than 6 bytes,
\* lacks the AA 55 header, or has none of the three shapes.
C8_DecodeNone ==
    call = "decode" =>
        (res = DecodedNone <=>
            (Len(inp.data) < 6 \/ ~StartsWithHeader(inp.data)
             \/ ~RecognizedShape(inp.data)))
C8_Witness == call = "decode" /\ Len(inp.data) = 8 /\ StartsWithHeader(inp.data)
              /\ inp.data[5] = 3 /\ res = DecodedNone

C10_Checksum ==
    call = "checksum" =>
        /\ res = (IF StartsWithHeader(inp.data)
                  THEN SumMod256(SubSeq(inp.data, 3, Len(inp.data)))
                  ELSE SumMod256(inp.data))
        /\ (~StartsWithHeader(inp.data) =>
              CalculateChecksum(Hdr \o inp.data) = res)
C10_Witness == call = "checksum" /\ Len(inp.data) = 4 /\ ~StartsWithHeader(inp.data)
               /\ inp.data[1] = HeaderHi /\ res = 254

\* ------------------------------------------------------------------
\* Properties of TCPClient
\* ------------------------------------------------------------------

\* C11: while not connected, send_data returns (False, not connected) at
\* once and touches no socket.
C11_SendNotConnected ==
    [][(last'.act = "send" /\ ~is_connected) =>
         /\ last'.result = "not_connected"
         /\ ~last'.sockop
         /\ UNCHANGED <<socket, sock, is_connected>>]_vars
C11_Witness == last.act = "send" /\ last.result = "not_connected"
               /\ socket # NoSocket /\ sock[socket] = "connected"

\* C12: a failed write while connected returns (False, reason) and leaves
\* is_connected FALSE; only a successful connect sets it again.
C12_SendFailureDisconnects ==
    [][/\ (last'.act = "send" /\ is_connected /\ socket # NoSocket
           /\ last'.result # "ok") =>
              (last'.result = "failed" /\ ~is_connected')
       /\ (~is_connected /\ is_connected') =>
              (last'.act = "connect_end" /\ last'.result = "ok")]_vars
C12_Witness == last.act = "send" /\ last.result = "failed" /\ ~is_connected

\* C13: whatever the prior state, a failed connect leaves is_connected FALSE.
C13_FailedConnectDisconnected ==
    [][(last'.act = "connect_end" /\ last'.result # "ok") => ~is_connected']_vars

\* C14: at most one receive loop is running at any time.
C14_AtMostOneLoop ==
    Cardinality({t \in Sockets : pc[t] \in LoopPcs}) <= 1

\* C15: disconnect never fails and always leaves is_connected FALSE, the
\* socket closed and self.socket None.
C15_DisconnectIdempotent ==
    [][last'.act = "disconnect" =>
         /\ ~is_connected'
         /\ socket' = NoSocket
         /\ (socket # NoSocket => sock[socket] = "closed")]_vars
C15_Witness == last.act = "disconnect" /\ nextSock = MaxSockets
               /\ \A s \in Sockets : sock[s] = "closed"

\* C16: non-empty chunks reach the callback once each, in read order.
C16_DeliveredInReadOrder ==
    /\ Len(delivered) <= Len(readLog)
    /\ \A k \in 1..Len(delivered) : delivered[k] = readLog[k]

\* C17: a non-timeout read error ends the loop and leaves is_connected as
\* it was; only send_data and disconnect clear the flag.
C17_RecvErrorKeepsFlag ==
    [][/\ last'.act = "recv_error" =>
              (is_connected' = is_connected /\ pc'[last'.t] = "done")
       /\ (is_connected /\ ~is_connected') =>
              last'.act \in {"send", "disconnect_begin"}]_vars
C17_Witness == last.act = "recv_error" /\ is_connected /\ pc[last.t] = "done"

\* C18: after disconnect, the receive thread then running eventually ends.
C18_StoppedLoopTerminates ==
    \A t \in Sockets : stopReq[t] ~> (pc[t] = "done")

\* C19: an empty read (orderly peer close) delivers nothing, keeps the flag
\* and the loop goes on to its next test.
C19_EofKeepsLooping ==
    [][last'.act = "recv_eof" =>
         /\ pc'[last'.t] = "check"
         /\ is_connected' = is_connected
         /\ delivered' = delivered]_vars
C19_Witness == last.act = "recv_eof" /\ is_connected /\ pc[last.t] = "check"

\* C20: is_connected implies self.socket is not None.
C20_ConnectedHasSocket == is_connected => socket # NoSocket
C20_Witness == is_connected /\ socket = 2 /\ sock[1] = "closed"

====
